---- MODULE Spec2Model ----
(***************************************************************************)
(* A model of visage's video pipeline (src/video.c): the VisageVideo       *)
(* context, its mutex-protected singly linked frame queue, the decode loop *)
(* visage_process_video (producer), visage_pop_video (consumer), and the   *)
(* lifecycle functions visage_alloc_video / visage_init_video /            *)
(* visage_free_video.                                                      *)
(*                                                                         *)
(* Memory is modelled explicitly: queue nodes live in a heap indexed by    *)
(* fresh node ids, an AVFrame is a record naming the reference-counted     *)
(* pixel buffer it points at, and pixel buffers hold the number of the     *)
(* decoded picture last written into them.  libav calls that can fail      *)
(* (allocation, clone, send, open) fail nondeterministically.  A step that *)
(* dereferences NULL or freed memory sets ub and the process stops there.  *)
(***************************************************************************)
EXTENDS Integers, Sequences, FiniteSets, TLC

\* ---------------------------------------------------------------- bounds
MaxPackets == 2       \* units the source hands out before end of stream
MaxFrames  == 3       \* pictures the decoder emits in one run
MaxStreams == 2       \* streams of the container seen by visage_init_video

\* The pts an AVFrame gets from av_frame_alloc and keeps unless it is set
\* (libav's AV_NOPTS_VALUE, INT64_MIN there; any value that is no decoder
\* timestamp plays its part here).
AV_NOPTS_VALUE == -1

NULL == 0
NodeIds == 1..MaxFrames
ScaledBuf == 1        \* the buffer av_frame_get_buffer gives scaled_frame
Bufs == {ScaledBuf}   \* every pixel buffer the pipeline allocates
NoFrame == [buf |-> 0, pts |-> AV_NOPTS_VALUE]      \* a NULL AVFrame*
NoNode  == [frame |-> NoFrame, next |-> NULL, pts |-> 0, pic |-> 0]

\* pts values the decoder stamps on its pictures, in time_base units
DecoderPts == {0, 33}

\* time_base values of the selected stream, as <<num, den>>: one under which
\* the pts in milliseconds differs from the decoder's timestamp
TimeBases == {<<1, 3>>}

\* Inputs of the timestamp conversion checked on its own: decoder timestamps
\* 0..MaxPts under these time bases (1/1000 is the spec's example, 1/30 a
\* 30 fps stream counted in frames' worth of 1/30 s).
MaxPts == 120
PtsTimeBases == {<<1, 1000>>, <<1, 30>>}

\* IEEE 754 binary64 (C's double): 53 significand bits.  Wide numbers are
\* held in limbs of 15 bits; av_q2d's quotient is developed to 6 limbs
\* (90 binary places) before it is rounded.
SignificandBits == 53
LimbBits == 15
QuotientLimbs == 6

VARIABLES
  \* ---- the container handed to visage_init_video
  streams,        \* sequence of [kind, decoder]: the streams of format_ctx
  time_base,      \* <<num, den>> of the selected stream
  \* ---- VisageVideo and the caller's pointer to it
  video,          \* "none" | "live" | "freed": the VisageVideo allocation
  callerPtr,      \* "null" | "set": the caller's VisageVideo* variable
  format_ctx,     \* "null" | "set"
  codec,          \* "null" | "set"
  codecpar,       \* "null" | "set"
  sws_ctx,        \* "null" | "live" | "freed"
  codec_ctx,      \* "null" | "alloc" | "open" | "freed"
  stream_idx,     \* index of the selected stream (0 after av_mallocz)
  frames,         \* head of the queue: a node id or NULL
  frame_mutex,    \* "uninit" | "free" | "prod" | "cons" | "destroyed"
  \* ---- heap
  node,           \* [NodeIds -> node record]
  nodeSt,         \* [NodeIds -> "unalloc" | "live" | "freed"]
  pixels,         \* [Bufs -> number of the picture the buffer holds (0: none)]
  bufRefs,        \* [Bufs -> reference count]
  \* ---- main thread: visage_alloc_video, visage_init_video
  ipc, initRet, initFound,
  \* ---- thread running visage_process_video
  ppc, pret, nRead, nDecoded, frame, scaled_frame, new_frame,
  read_ret,       \* result of the last av_read_frame (0, or negative)
  send_ret,       \* result of the last avcodec_send_packet (0, or negative)
  recv_ret,       \* result of the last avcodec_receive_frame:
                  \* "none" (not called yet), "frame", "again", "error"
  \* ---- thread calling visage_pop_video
  cpc, top_frame, top_node, next_frames, popRet,
  \* ---- thread calling visage_free_video
  fpc, fcur,
  \* ---- a stop request (the spec's stop(); the code has no such signal)
  stop_requested,
  \* ---- history
  decoded,        \* decoder timestamps in the order receive returned them
  enq,            \* node ids in the order they were linked
  popped,         \* [node, frame] of every non-NULL pop, in order
  removed,        \* node ids in the order pop unlinked them
  created,        \* handles created so far (set of names)
  released,       \* handles released so far (sequence of names)
  ub              \* "none", or the undefined behaviour the run ended in

ctxVars  == <<video, callerPtr, format_ctx, codec, codecpar, sws_ctx, codec_ctx,
              stream_idx, frames, frame_mutex>>
heapVars == <<node, nodeSt, pixels, bufRefs>>
mainVars == <<ipc, initRet, initFound>>
prodVars == <<ppc, pret, nRead, nDecoded, frame, scaled_frame, new_frame,
              read_ret, send_ret, recv_ret>>
consVars == <<cpc, top_frame, top_node, next_frames, popRet>>
freeVars == <<fpc, fcur>>
histVars == <<decoded, enq, popped, removed, created, released>>
srcVars  == <<streams, time_base>>
vars == <<srcVars, ctxVars, heapVars, mainVars, prodVars, consVars, freeVars,
          stop_requested, histVars, ub>>

\* ------------------------------------------------------------ pure parts

\* Natural numbers wider than TLC's integers, as sequences of limbs
\* of LimbBits bits, least significant first (C's double has a 53-bit
\* significand).  Every intermediate value below stays under 2^31.
Base == 2 ^ LimbBits

RECURSIVE NatLimbs(_)
NatLimbs(n) == IF n = 0 THEN <<>> ELSE <<n % Base>> \o NatLimbs(n \div Base)

RECURSIVE LimbsNat(_)
LimbsNat(v) == IF v = <<>> THEN 0 ELSE v[1] + Base * LimbsNat(Tail(v))

LimbAt(v, i) == IF i \in 1..Len(v) THEN v[i] ELSE 0

\* Bit j of v, bit 0 being the lowest.
BitAt(v, j) == (LimbAt(v, j \div LimbBits + 1) \div 2 ^ (j % LimbBits)) % 2

\* The number of bits of v up to its highest 1.
BitWidth(v) ==
  LET ones == {j \in 0..(LimbBits * Len(v) - 1) : BitAt(v, j) = 1}
  IN  IF ones = {} THEN 0
      ELSE 1 + CHOOSE j \in ones : \A k \in ones : k <= j

\* v * n + c for a small n.
RECURSIVE MulLimbs(_, _, _)
MulLimbs(v, n, c) ==
  IF v = <<>> THEN NatLimbs(c)
  ELSE <<(v[1] * n + c) % Base>>
         \o MulLimbs(Tail(v), n, (v[1] * n + c) \div Base)

\* The integer part of v / 2^s.
ShiftRight(v, s) ==
  LET r == s % LimbBits
      a == s \div LimbBits
      w == BitWidth(v) - s
  IN  IF w <= 0 THEN <<>>
      ELSE [i \in 1..((w + LimbBits - 1) \div LimbBits) |->
              LimbAt(v, a + i) \div 2 ^ r
                + (LimbAt(v, a + i + 1) % 2 ^ r) * 2 ^ (LimbBits - r)]

\* Long division by a small d, from limb i of v down to limb 1: q holds the
\* quotient limbs found so far and r the remainder carried down.
RECURSIVE DivLimbs(_, _, _, _, _)
DivLimbs(v, d, i, r, q) ==
  IF i = 0 THEN [q |-> q, r |-> r]
  ELSE DivLimbs(v, d, i - 1, (r * Base + v[i]) % d,
                <<(r * Base + v[i]) \div d>> \o q)

\* A double that is not negative: the value m * 2^e, m of at most 53 bits
\* (54 when rounding carried out of the top, the lowest bit then being 0).
\* RoundDouble rounds v * 2^e, plus a non-zero rest below the lowest bit
\* when sticky, to the nearest double, ties to even (the default IEEE 754
\* rounding of every C double operation).
RoundDouble(v, e, sticky) ==
  LET drop == BitWidth(v) - SignificandBits
  IN  IF drop <= 0 THEN [m |-> ShiftRight(v, 0), e |-> e]
      ELSE LET kept == ShiftRight(v, drop)
               rest == sticky \/ \E j \in 0..(drop - 2) : BitAt(v, j) = 1
               up   == BitAt(v, drop - 1) = 1 /\ (rest \/ BitAt(kept, 0) = 1)
           IN  [m |-> MulLimbs(kept, 1, IF up THEN 1 ELSE 0), e |-> e + drop]

\* av_q2d (libavutil/rational.h): a.num / (double) a.den, one correctly
\* rounded division.  The quotient is taken to QuotientLimbs limbs below
\* the binary point, more places than any double of this size keeps.
av_q2d(tb) ==
  LET num == [i \in 1..QuotientLimbs |-> 0] \o NatLimbs(tb[1])
      d   == DivLimbs(num, tb[2], Len(num), 0, <<>>)
  IN  RoundDouble(d.q, 0 - QuotientLimbs * LimbBits, d.r # 0)

\* x * n for a double x and an integer n (converted to double exactly):
\* one correctly rounded multiplication.
MulDouble(x, n) == RoundDouble(MulLimbs(x.m, n, 0), x.e, FALSE)

\* Conversion of a double to uint64_t: the fraction is discarded.
TruncDouble(x) ==
  IF x.e >= 0 THEN LimbsNat(x.m) * 2 ^ x.e
  ELSE LimbsNat(ShiftRight(x.m, 0 - x.e))

\* video.c:171-172: frame->pts * av_q2d(time_base) * 1000, converted to
\* uint64_t.  C evaluates it left to right in double: pts (converted
\* exactly) times q = av_q2d(time_base), rounded, times 1000, rounded, then
\* truncated.
PtsMsDouble(pts, q) == TruncDouble(MulDouble(MulDouble(q, pts), 1000))

\* The same product in exact arithmetic, truncated: what the expression
\* denotes over the rationals.
ExactMs(pts, tb) == (pts * tb[1] * 1000) \div tb[2]

\* The conversion over the inputs the specifications draw, computed once.
\* f @@ f is f, taken as an enumerated function: its values are computed
\* when the table is built and not at every application.
PtsTable ==
  LET f == [x \in (0..MaxPts) \X (TimeBases \cup PtsTimeBases) |->
              PtsMsDouble(x[1], av_q2d(x[2]))]
  IN  f @@ f

PtsMs(pts, tb) == PtsTable[<<pts, tb>>]

\* av_frame_clone: a new AVFrame that references the source's buffers
\* (av_frame_ref) and copies its properties; no pixel is copied.
FrameClone(src) == [buf |-> src.buf, pts |-> src.pts]

\* video.c:179-180: cur = head; while (cur->next) cur = cur->next;
RECURSIVE TailOf(_, _, _)
TailOf(nd, cur, fuel) ==
  IF fuel = 0 \/ nd[cur].next = NULL THEN cur ELSE TailOf(nd, nd[cur].next, fuel - 1)

\* video.c:176-182: link new at the tail; gives <<frames', node'>>
LinkHead(nd, head, new) == <<new, [nd EXCEPT ![new].next = head]>>
LinkTail(nd, head, new) ==
  IF head = NULL THEN <<new, nd>>
  ELSE <<head, [nd EXCEPT ![TailOf(nd, head, MaxFrames)].next = new]>>

\* The nodes reachable from head, in order.
RECURSIVE ChainOf(_, _, _)
ChainOf(nd, cur, fuel) ==
  IF cur = NULL \/ fuel = 0 THEN <<>> ELSE <<cur>> \o ChainOf(nd, nd[cur].next, fuel - 1)
Chain == ChainOf(node, frames, MaxFrames + 1)

Range(s) == {s[i] : i \in 1..Len(s)}

\* ------------------------------------------------- undefined behaviour

\* The run ends in undefined behaviour tag: nothing else changes and no
\* further step is taken.
Halt(tag) ==
  /\ ub' = tag
  /\ UNCHANGED <<srcVars, ctxVars, heapVars, mainVars, prodVars, consVars,
                 freeVars, stop_requested, histVars>>

\* Every node reachable from the head is allocated.
ChainLive == \A i \in 1..Len(Chain) : nodeSt[Chain[i]] = "live"

\* ------------------------------------------- visage_process_video

\* video.c:105-143: the NULL check, the three allocations, the read of
\* video->codecpar and av_frame_get_buffer.
P_Start ==
  /\ ub = "none" /\ ppc = "start"
  /\ IF video = "none"
       THEN /\ ppc' = "returned" /\ pret' = -1
            /\ UNCHANGED <<nRead, nDecoded, frame, scaled_frame, new_frame,
                           heapVars, ub>>
       ELSE \E okAlloc \in BOOLEAN, okBuf \in BOOLEAN :
              IF ~okAlloc
                THEN /\ ppc' = "returned" /\ pret' = -1
                     /\ UNCHANGED <<nRead, nDecoded, frame, scaled_frame,
                                    new_frame, heapVars, ub>>
              ELSE IF video = "freed" \/ codecpar = "null"
                THEN /\ ub' = IF video = "freed" THEN "use_after_free"
                                                 ELSE "null_deref_codecpar"
                     /\ UNCHANGED <<ppc, pret, nRead, nDecoded, frame,
                                    scaled_frame, new_frame, heapVars>>
              ELSE IF ~okBuf
                THEN /\ ppc' = "returned" /\ pret' = -1
                     /\ UNCHANGED <<nRead, nDecoded, frame, scaled_frame,
                                    new_frame, heapVars, ub>>
              ELSE /\ ppc' = "read"
                   /\ scaled_frame' = [buf |-> ScaledBuf, pts |-> AV_NOPTS_VALUE]
                   /\ bufRefs' = [bufRefs EXCEPT ![ScaledBuf] = 1]
                   /\ UNCHANGED <<pret, nRead, nDecoded, frame, new_frame,
                                  node, nodeSt, pixels, ub>>
  /\ UNCHANGED <<srcVars, ctxVars, mainVars, consVars, freeVars,
                 stop_requested, histVars,
                 read_ret, send_ret, recv_ret>>

\* A loop that flushes: at the end of the source it goes back to the decoder
\* for the pictures it still holds.
P_ReadThenFlush ==
  /\ ub = "none" /\ ppc = "read"
  /\ IF video # "live" THEN Halt("use_after_free")
     ELSE /\ \E r \in {"eof", "unit"}, idx \in 0..(Len(streams) - 1) :
               IF r = "eof" \/ nRead >= MaxPackets
                 THEN ppc' = "receive" /\ nRead' = nRead /\ read_ret' = -1
                 ELSE /\ nRead' = nRead + 1
                      /\ read_ret' = 0
                      /\ ppc' = IF idx # stream_idx THEN "read" ELSE "send"
          /\ UNCHANGED <<srcVars, ctxVars, heapVars, mainVars, pret, nDecoded,
                         frame, scaled_frame, new_frame, send_ret, recv_ret,
                         consVars, freeVars, stop_requested, histVars, ub>>

\* video.c:146-148: av_read_frame; a negative result (end of stream or a
\* read error) leaves the loop, a unit of another stream is skipped.
P_Read ==
  /\ ub = "none" /\ ppc = "read"
  /\ IF video # "live" THEN Halt("use_after_free")
     ELSE /\ \E r \in {"eof", "unit"}, idx \in 0..(Len(streams) - 1) :
               IF r = "eof" \/ nRead >= MaxPackets
                 THEN ppc' = "cleanup" /\ nRead' = nRead /\ read_ret' = -1
                 ELSE /\ nRead' = nRead + 1
                      /\ read_ret' = 0
                      /\ ppc' = IF idx # stream_idx THEN "read" ELSE "send"
          /\ UNCHANGED <<srcVars, ctxVars, heapVars, mainVars, pret, nDecoded,
                         frame, scaled_frame, new_frame, send_ret, recv_ret,
                         consVars, freeVars, stop_requested, histVars, ub>>

\* A loop that does not test send_ret.
P_SendIgnoresError ==
  /\ ub = "none" /\ ppc = "send"
  /\ IF video # "live" \/ codec_ctx # "open" THEN Halt("use_after_free")
     ELSE /\ \E send_ok \in BOOLEAN :
               /\ send_ret' = IF send_ok THEN 0 ELSE -1
               /\ ppc' = "receive"
          /\ UNCHANGED <<srcVars, ctxVars, heapVars, mainVars, pret, nRead,
                         nDecoded, frame, scaled_frame, new_frame, read_ret,
                         recv_ret, consVars, freeVars, stop_requested,
                         histVars, ub>>

\* video.c:151-156: avcodec_send_packet; a negative result jumps to cleanup.
\* A decoder context that was allocated but never opened (an init that
\* failed at video.c:280-289) is refused with AVERROR(EINVAL); a NULL one is
\* dereferenced by the library.
P_Send ==
  /\ ub = "none" /\ ppc = "send"
  /\ IF video # "live" THEN Halt("use_after_free")
     ELSE IF codec_ctx = "null" THEN Halt("null_deref_codec_ctx")
     ELSE /\ \E send_ok \in BOOLEAN :
               LET ok == send_ok /\ codec_ctx = "open" IN
               /\ send_ret' = IF ok THEN 0 ELSE -1
               /\ ppc' = IF ok THEN "receive" ELSE "cleanup"
          /\ UNCHANGED <<srcVars, ctxVars, heapVars, mainVars, pret, nRead,
                         nDecoded, frame, scaled_frame, new_frame, read_ret,
                         recv_ret, consVars, freeVars, stop_requested,
                         histVars, ub>>

\* video.c:159: avcodec_receive_frame; a picture with its pts, or a negative
\* result that ends the inner loop.  The condition is only ">= 0": the
\* normal "no more output" (AVERROR(EAGAIN)) and a decoding error both leave
\* the inner loop the same way, back to the next av_read_frame.
P_Receive ==
  /\ ub = "none" /\ ppc = "receive"
  /\ IF video # "live" \/ codec_ctx # "open" THEN Halt("use_after_free")
     ELSE /\ \E r \in {"frame", "again", "error"}, pts \in DecoderPts :
               IF r = "frame" /\ nDecoded < MaxFrames
                 THEN /\ nDecoded' = nDecoded + 1
                      /\ frame' = [pic |-> nDecoded + 1, pts |-> pts]
                      /\ decoded' = Append(decoded, pts)
                      /\ recv_ret' = "frame"
                      /\ ppc' = "scale"
                 ELSE /\ recv_ret' = IF r = "error" THEN "error" ELSE "again"
                      /\ ppc' = "read"
                      /\ UNCHANGED <<nDecoded, frame, decoded>>
          /\ UNCHANGED <<srcVars, ctxVars, heapVars, mainVars, pret, nRead,
                         scaled_frame, new_frame, read_ret, send_ret, consVars,
                         freeVars, stop_requested, enq, popped, removed,
                         created, released, ub>>

\* video.c:161-162: sws_scale writes the converted picture through
\* scaled_frame->data, i.e. into the buffer scaled_frame references.
P_Scale ==
  /\ ub = "none" /\ ppc = "scale"
  /\ IF video # "live" \/ sws_ctx # "live" THEN Halt("use_after_free")
     ELSE /\ pixels' = [pixels EXCEPT ![scaled_frame.buf] = frame.pic]
          /\ ppc' = "alloc"
          /\ UNCHANGED <<srcVars, ctxVars, node, nodeSt, bufRefs, mainVars,
                         pret, nRead, nDecoded, frame, scaled_frame, new_frame,
                         consVars, freeVars, stop_requested, histVars, ub,
                         read_ret, send_ret, recv_ret>>

\* video.c:165 with visage_alloc_frames (video.c:24-34): a zeroed node, or
\* NULL when av_mallocz fails.  Node ids are fresh: the n-th picture's node
\* is node n.
P_Alloc ==
  /\ ub = "none" /\ ppc = "alloc"
  /\ \E ok \in BOOLEAN :
       IF ok THEN /\ new_frame' = nDecoded
                  /\ nodeSt' = [nodeSt EXCEPT ![nDecoded] = "live"]
                  /\ node' = [node EXCEPT ![nDecoded] = NoNode]
             ELSE /\ new_frame' = NULL
                  /\ UNCHANGED <<node, nodeSt>>
  /\ ppc' = "clone"
  /\ UNCHANGED <<srcVars, ctxVars, pixels, bufRefs, mainVars, pret, nRead,
                 nDecoded, frame, scaled_frame, consVars, freeVars,
                 stop_requested, histVars, ub,
                 read_ret, send_ret, recv_ret>>

\* video.c:168: new_frame->frame = av_frame_clone(scaled_frame).  new_frame
\* is not checked: a NULL node is written through.  The clone may fail and
\* leave the node's frame NULL.  pic records the picture the buffer held
\* when the node's frame was made.
P_Clone ==
  /\ ub = "none" /\ ppc = "clone"
  /\ IF new_frame = NULL THEN Halt("null_deref_new_frame")
     ELSE /\ \E ok \in BOOLEAN :
               IF ok THEN /\ node' = [node EXCEPT
                                        ![new_frame].frame = FrameClone(scaled_frame),
                                        ![new_frame].pic = pixels[scaled_frame.buf]]
                          /\ bufRefs' = [bufRefs EXCEPT ![scaled_frame.buf] = @ + 1]
                     ELSE /\ node' = [node EXCEPT ![new_frame].frame = NoFrame]
                          /\ bufRefs' = bufRefs
          /\ ppc' = "setpts"
          /\ UNCHANGED <<srcVars, ctxVars, nodeSt, pixels, mainVars, pret, nRead,
                         nDecoded, frame, scaled_frame, new_frame, consVars,
                         freeVars, stop_requested, histVars, ub,
                         read_ret, send_ret, recv_ret>>

\* video.c:171-172: the node's pts in milliseconds.
P_SetPts ==
  /\ ub = "none" /\ ppc = "setpts"
  /\ IF video # "live" THEN Halt("use_after_free")
     ELSE /\ node' = [node EXCEPT ![new_frame].pts = PtsMs(frame.pts, time_base)]
          /\ ppc' = "lock"
          /\ UNCHANGED <<srcVars, ctxVars, nodeSt, pixels, bufRefs, mainVars,
                         pret, nRead, nDecoded, frame, scaled_frame, new_frame,
                         consVars, freeVars, stop_requested, histVars, ub,
                         read_ret, send_ret, recv_ret>>

\* video.c:175: pthread_mutex_lock; waits while another thread holds it.
P_Lock ==
  /\ ub = "none" /\ ppc = "lock"
  /\ frame_mutex \notin {"prod", "cons"}
  /\ IF video # "live" \/ frame_mutex # "free" THEN Halt("use_after_free")
     ELSE /\ frame_mutex' = "prod"
          /\ ppc' = "append"
          /\ UNCHANGED <<srcVars, video, callerPtr, format_ctx, codec, codecpar,
                         sws_ctx, codec_ctx, stream_idx, frames, heapVars,
                         mainVars, pret, nRead, nDecoded, frame, scaled_frame,
                         new_frame, consVars, freeVars, stop_requested,
                         histVars, ub,
                         read_ret, send_ret, recv_ret>>

\* video.c:176-182: the node becomes the head of an empty queue, or is
\* linked behind the last node.
P_Append ==
  /\ ub = "none" /\ ppc = "append"
  /\ IF video # "live" \/ ~ChainLive THEN Halt("use_after_free")
     ELSE /\ frames' = LinkTail(node, frames, new_frame)[1]
          /\ node' = LinkTail(node, frames, new_frame)[2]
          /\ enq' = Append(enq, new_frame)
          /\ ppc' = "unlock"
          /\ UNCHANGED <<srcVars, video, callerPtr, format_ctx, codec, codecpar,
                         sws_ctx, codec_ctx, stream_idx, frame_mutex, nodeSt,
                         pixels, bufRefs, mainVars, pret, nRead, nDecoded, frame,
                         scaled_frame, new_frame, consVars, freeVars,
                         stop_requested, popped, removed, created, released, ub,
                         read_ret, send_ret, recv_ret, decoded>>

\* An unlock that is left out: the loop goes back to the decoder holding the
\* mutex.
P_UnlockHolds ==
  /\ ub = "none" /\ ppc = "unlock"
  /\ IF video # "live" \/ frame_mutex # "prod" THEN Halt("use_after_free")
     ELSE /\ frame_mutex' = frame_mutex
          /\ ppc' = "receive"
          /\ UNCHANGED <<srcVars, video, callerPtr, format_ctx, codec, codecpar,
                         sws_ctx, codec_ctx, stream_idx, frames, heapVars,
                         mainVars, pret, nRead, nDecoded, frame, scaled_frame,
                         new_frame, consVars, freeVars, stop_requested,
                         histVars, ub,
                         read_ret, send_ret, recv_ret>>

\* A loop that takes one frame per unit: after the append it reads the next
\* unit instead of asking the decoder again.
P_UnlockToRead ==
  /\ ub = "none" /\ ppc = "unlock"
  /\ IF video # "live" \/ frame_mutex # "prod" THEN Halt("use_after_free")
     ELSE /\ frame_mutex' = "free"
          /\ ppc' = "read"
          /\ UNCHANGED <<srcVars, video, callerPtr, format_ctx, codec, codecpar,
                         sws_ctx, codec_ctx, stream_idx, frames, heapVars,
                         mainVars, pret, nRead, nDecoded, frame, scaled_frame,
                         new_frame, consVars, freeVars, stop_requested,
                         histVars, ub,
                         read_ret, send_ret, recv_ret>>

\* video.c:183: pthread_mutex_unlock, then the inner loop's next receive.
P_Unlock ==
  /\ ub = "none" /\ ppc = "unlock"
  /\ IF video # "live" \/ frame_mutex # "prod" THEN Halt("use_after_free")
     ELSE /\ frame_mutex' = "free"
          /\ ppc' = "receive"
          /\ UNCHANGED <<srcVars, video, callerPtr, format_ctx, codec, codecpar,
                         sws_ctx, codec_ctx, stream_idx, frames, heapVars,
                         mainVars, pret, nRead, nDecoded, frame, scaled_frame,
                         new_frame, consVars, freeVars, stop_requested,
                         histVars, ub,
                         read_ret, send_ret, recv_ret>>

\* video.c:188-193: the working frames and the packet are freed (the scaled
\* frame drops its reference to the buffer) and 0 is returned, whether the
\* loop ended at end of stream or at a failed send.
P_Cleanup ==
  /\ ub = "none" /\ ppc = "cleanup"
  /\ scaled_frame' = NoFrame
  /\ bufRefs' = [bufRefs EXCEPT ![scaled_frame.buf] = @ - 1]
  /\ pret' = 0
  /\ ppc' = "returned"
  /\ UNCHANGED <<srcVars, ctxVars, node, nodeSt, pixels, mainVars, nRead,
                 nDecoded, frame, new_frame, consVars, freeVars,
                 stop_requested, histVars, ub,
                 read_ret, send_ret, recv_ret>>

ProdNext ==
  \/ P_Start \/ P_Read \/ P_Send \/ P_Receive \/ P_Scale \/ P_Alloc
  \/ P_Clone \/ P_SetPts \/ P_Lock \/ P_Append \/ P_Unlock \/ P_Cleanup

\* ------------------------------------------------- visage_pop_video

\* video.c:84: pthread_mutex_lock.
C_Lock ==
  /\ ub = "none" /\ cpc = "idle"
  /\ frame_mutex \notin {"prod", "cons"}
  /\ IF video # "live" \/ frame_mutex # "free" THEN Halt("use_after_free")
     ELSE /\ frame_mutex' = "cons"
          /\ cpc' = "check"
          /\ UNCHANGED <<srcVars, video, callerPtr, format_ctx, codec, codecpar,
                         sws_ctx, codec_ctx, stream_idx, frames, heapVars,
                         mainVars, prodVars, top_frame, top_node, next_frames,
                         popRet, freeVars, stop_requested, histVars, ub>>

\* A pop that waits for a frame instead of testing for one.
C_CheckWaiting ==
  /\ ub = "none" /\ cpc = "check"
  /\ frames # NULL
  /\ cpc' = "clone"
  /\ UNCHANGED <<srcVars, ctxVars, heapVars, mainVars, prodVars, top_frame,
                 top_node, next_frames, popRet, freeVars, stop_requested,
                 histVars, ub>>

\* video.c:85: if (!video->frames)
C_Check ==
  /\ ub = "none" /\ cpc = "check"
  /\ IF video # "live" THEN Halt("use_after_free")
     ELSE /\ cpc' = IF frames = NULL THEN "unlock_empty" ELSE "clone"
          /\ UNCHANGED <<srcVars, ctxVars, heapVars, mainVars, prodVars,
                         top_frame, top_node, next_frames, popRet, freeVars,
                         stop_requested, histVars, ub>>

\* video.c:86: the unlock of the empty branch.
C_UnlockEmpty ==
  /\ ub = "none" /\ cpc = "unlock_empty"
  /\ IF video # "live" \/ frame_mutex # "cons" THEN Halt("use_after_free")
     ELSE /\ frame_mutex' = "free"
          /\ cpc' = "return_empty"
          /\ UNCHANGED <<srcVars, video, callerPtr, format_ctx, codec, codecpar,
                         sws_ctx, codec_ctx, stream_idx, frames, heapVars,
                         mainVars, prodVars, top_frame, top_node, next_frames,
                         popRet, freeVars, stop_requested, histVars, ub>>

\* video.c:87: return NULL.
C_ReturnEmpty ==
  /\ ub = "none" /\ cpc = "return_empty"
  /\ popRet' = NoFrame
  /\ cpc' = "idle"
  /\ UNCHANGED <<srcVars, ctxVars, heapVars, mainVars, prodVars, top_frame,
                 top_node, next_frames, freeVars, stop_requested, histVars, ub>>

\* video.c:91: top_frame = av_frame_clone(video->frames->frame); the clone
\* references the head frame's buffer, or is NULL when it fails.
C_Clone ==
  /\ ub = "none" /\ cpc = "clone"
  /\ IF video # "live" \/ nodeSt[frames] # "live" THEN Halt("use_after_free")
     ELSE IF node[frames].frame = NoFrame THEN Halt("null_deref_clone_source")
     ELSE /\ \E ok \in BOOLEAN :
               IF ok THEN /\ top_frame' = FrameClone(node[frames].frame)
                          /\ bufRefs' = [bufRefs EXCEPT ![node[frames].frame.buf] = @ + 1]
                     ELSE /\ top_frame' = NoFrame
                          /\ bufRefs' = bufRefs
          /\ top_node' = frames
          /\ cpc' = "free"
          /\ UNCHANGED <<srcVars, ctxVars, node, nodeSt, pixels, mainVars,
                         prodVars, next_frames, popRet, freeVars,
                         stop_requested, histVars, ub>>

\* video.c:94-95: next_frames = video->frames->next, then visage_free_frames
\* (video.c:37-40) frees the head's frame and the head node.
C_Free ==
  /\ ub = "none" /\ cpc = "free"
  /\ IF video # "live" \/ nodeSt[frames] # "live" THEN Halt("use_after_free")
     ELSE /\ next_frames' = node[frames].next
          /\ nodeSt' = [nodeSt EXCEPT ![frames] = "freed"]
          /\ bufRefs' = [bufRefs EXCEPT ![node[frames].frame.buf] = @ - 1]
          /\ removed' = Append(removed, frames)
          /\ cpc' = "update"
          /\ UNCHANGED <<srcVars, ctxVars, node, pixels, mainVars, prodVars,
                         top_frame, top_node, popRet, freeVars, stop_requested,
                         enq, popped, created, released, ub, decoded>>

\* A pop that frees the head node and leaves frames pointing at it.
C_UpdateKeepsHead ==
  /\ ub = "none" /\ cpc = "update"
  /\ IF video # "live" THEN Halt("use_after_free")
     ELSE /\ frames' = frames
          /\ cpc' = "unlock"
          /\ UNCHANGED <<srcVars, video, callerPtr, format_ctx, codec, codecpar,
                         sws_ctx, codec_ctx, stream_idx, frame_mutex, heapVars,
                         mainVars, prodVars, top_frame, top_node, next_frames,
                         popRet, freeVars, stop_requested, histVars, ub>>

\* video.c:98: video->frames = next_frames.
C_Update ==
  /\ ub = "none" /\ cpc = "update"
  /\ IF video # "live" THEN Halt("use_after_free")
     ELSE /\ frames' = next_frames
          /\ cpc' = "unlock"
          /\ UNCHANGED <<srcVars, video, callerPtr, format_ctx, codec, codecpar,
                         sws_ctx, codec_ctx, stream_idx, frame_mutex, heapVars,
                         mainVars, prodVars, top_frame, top_node, next_frames,
                         popRet, freeVars, stop_requested, histVars, ub>>

\* video.c:99: pthread_mutex_unlock.
C_Unlock ==
  /\ ub = "none" /\ cpc = "unlock"
  /\ IF video # "live" \/ frame_mutex # "cons" THEN Halt("use_after_free")
     ELSE /\ frame_mutex' = "free"
          /\ cpc' = "return"
          /\ UNCHANGED <<srcVars, video, callerPtr, format_ctx, codec, codecpar,
                         sws_ctx, codec_ctx, stream_idx, frames, heapVars,
                         mainVars, prodVars, top_frame, top_node, next_frames,
                         popRet, freeVars, stop_requested, histVars, ub>>

\* video.c:101: return top_frame.  The AVFrame* is all the caller gets; a
\* non-NULL one is recorded with the node it was cloned from.  The locals
\* end with the call.
C_Return ==
  /\ ub = "none" /\ cpc = "return"
  /\ popRet' = top_frame
  /\ popped' = IF top_frame # NoFrame
                 THEN Append(popped, [node |-> top_node, frame |-> top_frame])
                 ELSE popped
  /\ cpc' = "idle"
  /\ top_frame' = NoFrame /\ top_node' = NULL /\ next_frames' = NULL
  /\ UNCHANGED <<srcVars, ctxVars, heapVars, mainVars, prodVars, freeVars,
                 stop_requested, enq, removed, created, released, ub, decoded>>

ConsNext ==
  \/ C_Lock \/ C_Check \/ C_UnlockEmpty \/ C_ReturnEmpty
  \/ C_Clone \/ C_Free \/ C_Update \/ C_Unlock \/ C_Return

\* ------------------------------- visage_alloc_video, visage_init_video

\* video.c:236-249: the first stream of kind video, as [idx, codec]: its
\* 0-based index and whether avcodec_find_decoder knows its codec; idx -1
\* when there is none.
RECURSIVE FindVideoFrom(_, _)
FindVideoFrom(strs, i) ==
  IF i > Len(strs) THEN [idx |-> -1, codec |-> FALSE]
  ELSE IF strs[i].kind = "video" THEN [idx |-> i - 1, codec |-> strs[i].decoder]
  ELSE FindVideoFrom(strs, i + 1)
FindVideo(strs) == FindVideoFrom(strs, 1)

\* video.c:209-223: a zeroed context with an initialized mutex, or NULL.
I_Alloc ==
  /\ ub = "none" /\ ipc = "alloc"
  /\ \E ok \in BOOLEAN :
       IF ok THEN /\ video' = "live" /\ callerPtr' = "set"
                  /\ frame_mutex' = "free"
                  /\ created' = created \cup {"video", "frame_mutex"}
             ELSE /\ video' = "none" /\ callerPtr' = "null"
                  /\ UNCHANGED <<frame_mutex, created>>
  /\ format_ctx' = "null" /\ codec' = "null" /\ codecpar' = "null"
  /\ sws_ctx' = "null" /\ codec_ctx' = "null" /\ frames' = NULL
  /\ stream_idx' = 0
  /\ ipc' = "allocated"
  /\ UNCHANGED <<srcVars, heapVars, initRet, initFound, prodVars, consVars,
                 freeVars, stop_requested, enq, popped, removed, released, ub, decoded>>

\* video.c:226-249: bind the container and look for the video stream.
I_Find ==
  /\ ub = "none" /\ ipc = "allocated" /\ fpc = "call" /\ video = "live"
  /\ format_ctx' = "set"
  /\ initFound' = FindVideo(streams)
  /\ ipc' = "check"
  /\ UNCHANGED <<srcVars, video, callerPtr, codec, codecpar, sws_ctx, codec_ctx,
                 stream_idx, frames, frame_mutex, heapVars, initRet, prodVars,
                 consVars, freeVars, stop_requested, histVars, ub>>

\* video.c:252-260: no video stream, or no decoder for it, is an error.
I_CheckStream ==
  /\ ub = "none" /\ ipc = "check"
  /\ IF initFound.idx = -1 \/ ~initFound.codec
       THEN /\ initRet' = -1 /\ ipc' = "ret"
            /\ UNCHANGED <<codec, codecpar, stream_idx>>
       ELSE /\ codec' = "set" /\ codecpar' = "set"
            /\ stream_idx' = initFound.idx
            /\ ipc' = "sws"
            /\ UNCHANGED initRet
  /\ UNCHANGED <<srcVars, video, callerPtr, format_ctx, sws_ctx, codec_ctx,
                 frames, frame_mutex, heapVars, initFound, prodVars, consVars,
                 freeVars, stop_requested, histVars, ub>>

\* video.c:263-270: sws_getContext.
I_Sws ==
  /\ ub = "none" /\ ipc = "sws"
  /\ \E ok \in BOOLEAN :
       IF ok THEN /\ sws_ctx' = "live" /\ ipc' = "alloc_ctx"
                  /\ created' = created \cup {"sws_ctx"}
                  /\ UNCHANGED initRet
             ELSE /\ initRet' = -1 /\ ipc' = "ret"
                  /\ UNCHANGED <<sws_ctx, created>>
  /\ UNCHANGED <<srcVars, video, callerPtr, format_ctx, codec, codecpar,
                 codec_ctx, stream_idx, frames, frame_mutex, heapVars, initFound,
                 prodVars, consVars, freeVars, stop_requested, enq, popped,
                 removed, released, ub, decoded>>

\* video.c:273-277: avcodec_alloc_context3.
I_AllocCtx ==
  /\ ub = "none" /\ ipc = "alloc_ctx"
  /\ \E ok \in BOOLEAN :
       IF ok THEN /\ codec_ctx' = "alloc" /\ ipc' = "params"
                  /\ created' = created \cup {"codec_ctx"}
                  /\ UNCHANGED initRet
             ELSE /\ initRet' = -1 /\ ipc' = "ret"
                  /\ UNCHANGED <<codec_ctx, created>>
  /\ UNCHANGED <<srcVars, video, callerPtr, format_ctx, codec, codecpar,
                 sws_ctx, stream_idx, frames, frame_mutex, heapVars, initFound,
                 prodVars, consVars, freeVars, stop_requested, enq, popped,
                 removed, released, ub, decoded>>

\* video.c:280-283: avcodec_parameters_to_context.
I_Params ==
  /\ ub = "none" /\ ipc = "params"
  /\ \E ok \in BOOLEAN :
       IF ok THEN ipc' = "open" /\ UNCHANGED initRet
             ELSE initRet' = -1 /\ ipc' = "ret"
  /\ UNCHANGED <<srcVars, ctxVars, heapVars, initFound, prodVars, consVars,
                 freeVars, stop_requested, histVars, ub>>

\* video.c:286-289: avcodec_open2.
I_Open ==
  /\ ub = "none" /\ ipc = "open"
  /\ \E ok \in BOOLEAN :
       IF ok THEN /\ codec_ctx' = "open" /\ ipc' = "finish"
                  /\ UNCHANGED initRet
             ELSE /\ initRet' = -1 /\ ipc' = "ret"
                  /\ UNCHANGED codec_ctx
  /\ UNCHANGED <<srcVars, video, callerPtr, format_ctx, codec, codecpar,
                 sws_ctx, stream_idx, frames, frame_mutex, heapVars, initFound,
                 prodVars, consVars, freeVars, stop_requested, histVars, ub>>

\* video.c:291-294: frames = NULL; return 0.
I_Finish ==
  /\ ub = "none" /\ ipc = "finish"
  /\ frames' = NULL
  /\ initRet' = 0
  /\ ipc' = "ret"
  /\ UNCHANGED <<srcVars, video, callerPtr, format_ctx, codec, codecpar,
                 sws_ctx, codec_ctx, stream_idx, frame_mutex, heapVars,
                 initFound, prodVars, consVars, freeVars, stop_requested,
                 histVars, ub>>

InitNext ==
  \/ I_Alloc \/ I_Find \/ I_CheckStream \/ I_Sws \/ I_AllocCtx \/ I_Params
  \/ I_Open \/ I_Finish

\* ------------------------------------------------- visage_free_video

\* video.c:198: if (!*video) return.  The call is made by the thread that
\* allocated the context, between its other calls; nothing in the function
\* looks at the decode loop or takes the mutex.
F_Check ==
  /\ ub = "none" /\ fpc = "call" /\ ipc \in {"allocated", "ret"}
  /\ fpc' = IF callerPtr = "null" THEN "done" ELSE "codec"
  /\ UNCHANGED <<srcVars, ctxVars, heapVars, mainVars, prodVars, consVars,
                 fcur, stop_requested, histVars, ub>>

\* video.c:200: avcodec_free_context(&codec_ctx) frees a context that
\* exists and sets the field to NULL; on NULL it does nothing.
F_Codec ==
  /\ ub = "none" /\ fpc = "codec"
  /\ IF codec_ctx \in {"alloc", "open"}
       THEN /\ codec_ctx' = "null"
            /\ released' = Append(released, "codec_ctx")
       ELSE UNCHANGED <<codec_ctx, released>>
  /\ fpc' = "sws"
  /\ UNCHANGED <<srcVars, video, callerPtr, format_ctx, codec, codecpar,
                 sws_ctx, stream_idx, frames, frame_mutex, heapVars, mainVars,
                 prodVars, consVars, fcur, stop_requested, enq, popped,
                 removed, created, ub, decoded>>

\* A teardown that forgets the conversion context.
F_SwsSkipped ==
  /\ ub = "none" /\ fpc = "sws"
  /\ fpc' = "frames"
  /\ fcur' = frames
  /\ UNCHANGED <<srcVars, ctxVars, heapVars, mainVars, prodVars, consVars,
                 stop_requested, histVars, ub>>

\* video.c:201-202: sws_freeContext(sws_ctx) (nothing on NULL; the field
\* keeps its value), then visage_free_all_frames is entered with the head.
F_Sws ==
  /\ ub = "none" /\ fpc = "sws"
  /\ IF sws_ctx = "freed" THEN Halt("double_free")
     ELSE /\ IF sws_ctx = "live"
               THEN /\ sws_ctx' = "freed"
                    /\ released' = Append(released, "sws_ctx")
               ELSE UNCHANGED <<sws_ctx, released>>
          /\ fpc' = "frames"
          /\ fcur' = frames
          /\ UNCHANGED <<srcVars, video, callerPtr, format_ctx, codec, codecpar,
                         codec_ctx, stream_idx, frames, frame_mutex, heapVars,
                         mainVars, prodVars, consVars, stop_requested, enq,
                         popped, removed, created, ub, decoded>>

\* A teardown that frees the head node only and leaves the rest of the
\* chain allocated.
F_FramesHeadOnly ==
  /\ ub = "none" /\ fpc = "frames"
  /\ IF fcur = NULL
       THEN /\ fpc' = "mutex"
            /\ UNCHANGED <<fcur, heapVars, ub>>
     ELSE IF nodeSt[fcur] # "live"
       THEN /\ ub' = "use_after_free"
            /\ UNCHANGED <<fpc, fcur, heapVars>>
     ELSE /\ nodeSt' = [nodeSt EXCEPT ![fcur] = "freed"]
          /\ bufRefs' = IF node[fcur].frame = NoFrame THEN bufRefs
                         ELSE [bufRefs EXCEPT ![node[fcur].frame.buf] = @ - 1]
          /\ fcur' = NULL
          /\ UNCHANGED <<fpc, node, pixels, ub>>
  /\ UNCHANGED <<srcVars, ctxVars, mainVars, prodVars, consVars,
                 stop_requested, histVars>>

\* video.c:43-50: one turn of visage_free_all_frames' loop: the node's frame
\* and the node are freed and the walk moves to its next; the mutex is not
\* taken.  On NULL the loop ends.
F_Frames ==
  /\ ub = "none" /\ fpc = "frames"
  /\ IF fcur = NULL
       THEN /\ fpc' = "mutex"
            /\ UNCHANGED <<fcur, heapVars, ub>>
     ELSE IF nodeSt[fcur] # "live"
       THEN /\ ub' = "use_after_free"
            /\ UNCHANGED <<fpc, fcur, heapVars>>
     ELSE /\ nodeSt' = [nodeSt EXCEPT ![fcur] = "freed"]
          /\ bufRefs' = IF node[fcur].frame = NoFrame THEN bufRefs
                         ELSE [bufRefs EXCEPT ![node[fcur].frame.buf] = @ - 1]
          /\ fcur' = node[fcur].next
          /\ UNCHANGED <<fpc, node, pixels, ub>>
  /\ UNCHANGED <<srcVars, ctxVars, mainVars, prodVars, consVars,
                 stop_requested, histVars>>

\* video.c:203: pthread_mutex_destroy; destroying a locked mutex is
\* undefined.
F_Mutex ==
  /\ ub = "none" /\ fpc = "mutex"
  /\ IF frame_mutex # "free" THEN Halt("destroy_locked_mutex")
     ELSE /\ frame_mutex' = "destroyed"
          /\ released' = Append(released, "frame_mutex")
          /\ fpc' = "free"
          /\ UNCHANGED <<srcVars, video, callerPtr, format_ctx, codec, codecpar,
                         sws_ctx, codec_ctx, stream_idx, frames, heapVars,
                         mainVars, prodVars, consVars, fcur, stop_requested,
                         enq, popped, removed, created, ub, decoded>>

\* video.c:204-205: av_free(*video); *video = NULL.
F_Free ==
  /\ ub = "none" /\ fpc = "free"
  /\ video' = "freed"
  /\ callerPtr' = "null"
  /\ released' = Append(released, "video")
  /\ fpc' = "done"
  /\ UNCHANGED <<srcVars, format_ctx, codec, codecpar, sws_ctx, codec_ctx,
                 stream_idx, frames, frame_mutex, heapVars, mainVars, prodVars,
                 consVars, fcur, stop_requested, enq, popped, removed, created,
                 ub, decoded>>

FreeNext == F_Check \/ F_Codec \/ F_Sws \/ F_Frames \/ F_Mutex \/ F_Free

\* ---------------------------------------------------------------- stop

\* The spec's stop(): another thread asks the running decode loop to halt.
\* video.c has no such entry point and the loop reads no such signal.
Stop ==
  /\ ub = "none" /\ ~stop_requested
  /\ ppc \notin {"start", "returned"}
  /\ stop_requested' = TRUE
  /\ UNCHANGED <<srcVars, ctxVars, heapVars, mainVars, prodVars, consVars,
                 freeVars, histVars, ub>>

\* ------------------------------------------------------- specifications

StreamRecs == [kind : {"video", "audio"}, decoder : BOOLEAN]
StreamSeqs == UNION {[1..n -> StreamRecs] : n \in 0..MaxStreams}

InitHeap ==
  /\ node = [n \in NodeIds |-> NoNode]
  /\ nodeSt = [n \in NodeIds |-> "unalloc"]
  /\ pixels = [b \in Bufs |-> 0] /\ bufRefs = [b \in Bufs |-> 0]
  /\ decoded = <<>> /\ enq = <<>> /\ popped = <<>> /\ removed = <<>>
  /\ released = <<>>
  /\ ub = "none" /\ stop_requested = FALSE
  /\ pret = 0 /\ nRead = 0 /\ nDecoded = 0
  /\ read_ret = 0 /\ send_ret = 0 /\ recv_ret = "none"
  /\ frame = [pic |-> 0, pts |-> 0] /\ scaled_frame = NoFrame /\ new_frame = NULL
  /\ top_frame = NoFrame /\ top_node = NULL /\ next_frames = NULL
  /\ popRet = NoFrame /\ fcur = NULL

\* After visage_alloc_video and a successful visage_init_video on a
\* container with a decodable video stream: the decode loop is about to be
\* started on one thread while another pops.
InitReady ==
  /\ InitHeap
  /\ streams = <<[kind |-> "audio", decoder |-> TRUE],
                 [kind |-> "video", decoder |-> TRUE]>>
  /\ time_base \in TimeBases
  /\ video = "live" /\ callerPtr = "set" /\ format_ctx = "set"
  /\ codec = "set" /\ codecpar = "set" /\ sws_ctx = "live" /\ codec_ctx = "open"
  /\ stream_idx = 1 /\ frames = NULL /\ frame_mutex = "free"
  /\ ipc = "ret" /\ initRet = 0 /\ initFound = [idx |-> 1, codec |-> TRUE]
  /\ created = {"video", "frame_mutex", "sws_ctx", "codec_ctx"}
  /\ ppc = "start" /\ cpc = "idle" /\ fpc = "off"

Next == ProdNext \/ ConsNext

\* The decode loop and a popping consumer on an initialized context.
Spec == InitReady /\ [][Next]_vars

\* The same with a stop request arriving from another thread.
NextStop == ProdNext \/ ConsNext \/ Stop
SpecStop == InitReady /\ [][NextStop]_vars

\* The decode loop and the consumer under the scheduling the code relies on.
\* A thread that is running keeps running: the producer takes its next step
\* (WF), and a consumer that is inside visage_pop_video, between its lock
\* and its unlock, gets to its unlock (WF on the steps under the lock).
\* The mutex is fair: a producer waiting at pthread_mutex_lock (video.c:175)
\* gets the mutex although the consumer takes and releases it again and
\* again (SF on P_Lock).  Nothing obliges the consumer to start a pop.
C_UnderLock == C_Check \/ C_UnlockEmpty \/ C_Clone \/ C_Free \/ C_Update \/ C_Unlock
Fairness == WF_vars(ProdNext) /\ SF_vars(P_Lock) /\ WF_vars(C_UnderLock)
SpecFair == InitReady /\ [][Next]_vars /\ Fairness

\* The same with the owner of the context calling visage_free_video.
InitTeardown ==
  /\ InitHeap
  /\ streams = <<[kind |-> "audio", decoder |-> TRUE],
                 [kind |-> "video", decoder |-> TRUE]>>
  /\ time_base = <<1, 1000>>
  /\ video = "live" /\ callerPtr = "set" /\ format_ctx = "set"
  /\ codec = "set" /\ codecpar = "set" /\ sws_ctx = "live" /\ codec_ctx = "open"
  /\ stream_idx = 1 /\ frames = NULL /\ frame_mutex = "free"
  /\ ipc = "ret" /\ initRet = 0 /\ initFound = [idx |-> 1, codec |-> TRUE]
  /\ created = {"video", "frame_mutex", "sws_ctx", "codec_ctx"}
  /\ ppc = "start" /\ cpc = "idle" /\ fpc = "call"
NextTeardown == ProdNext \/ ConsNext \/ FreeNext
SpecTeardown == InitTeardown /\ [][NextTeardown]_vars

\* Teardown in its place in the lifecycle: visage_free_video is called once
\* visage_process_video has returned and no visage_pop_video is running,
\* with whatever the consumer left in the queue; afterwards the caller may
\* call visage_free_video on the same pointer variable again.
Running == fpc = "call" /\ video = "live" /\ Next
Teardown == ppc = "returned" /\ cpc = "idle" /\ FreeNext
F_CallAgain ==
  /\ ub = "none" /\ fpc = "done"
  /\ fpc' = "call"
  /\ UNCHANGED <<srcVars, ctxVars, heapVars, mainVars, prodVars, consVars,
                 fcur, stop_requested, histVars, ub>>
NextOrderly == Running \/ Teardown \/ F_CallAgain
SpecOrderly == InitTeardown /\ [][NextOrderly]_vars

\* The lifecycle on one thread: visage_alloc_video, visage_init_video on any
\* container of up to MaxStreams streams, visage_free_video.
InitAlloc ==
  /\ InitHeap
  /\ streams \in StreamSeqs
  /\ time_base = <<1, 1000>>
  /\ video = "none" /\ callerPtr = "null" /\ format_ctx = "null"
  /\ codec = "null" /\ codecpar = "null" /\ sws_ctx = "null" /\ codec_ctx = "null"
  /\ stream_idx = 0 /\ frames = NULL /\ frame_mutex = "uninit"
  /\ ipc = "alloc" /\ initRet = 0 /\ initFound = [idx |-> -1, codec |-> FALSE]
  /\ created = {}
  /\ ppc = "off" /\ cpc = "off" /\ fpc = "call"
NextLifecycle == InitNext \/ FreeNext
SpecLifecycle == InitAlloc /\ [][NextLifecycle]_vars

\* The lifecycle with visage_process_video called by the same thread at any
\* point where it holds a context pointer and no other call is running:
\* after visage_alloc_video, whose result may be NULL, without any
\* visage_init_video, or after visage_init_video has returned, 0 or -1.
InitCall ==
  /\ InitHeap
  /\ streams \in StreamSeqs
  /\ time_base = <<1, 1000>>
  /\ video = "none" /\ callerPtr = "null" /\ format_ctx = "null"
  /\ codec = "null" /\ codecpar = "null" /\ sws_ctx = "null" /\ codec_ctx = "null"
  /\ stream_idx = 0 /\ frames = NULL /\ frame_mutex = "uninit"
  /\ ipc = "alloc" /\ initRet = 0 /\ initFound = [idx |-> -1, codec |-> FALSE]
  /\ created = {}
  /\ ppc = "start" /\ cpc = "off" /\ fpc = "call"
P_Call == ipc \in {"allocated", "ret"} /\ ProdNext
NextCall == InitNext \/ P_Call
SpecCall == InitCall /\ [][NextCall]_vars

\* The timestamp conversion on its own: the loop has received its first
\* picture, with any timestamp of 0..MaxPts under any of PtsTimeBases, has
\* scaled it and cloned it into node 1, and is about to compute the pts.
InitPts ==
  /\ streams = <<[kind |-> "audio", decoder |-> TRUE],
                 [kind |-> "video", decoder |-> TRUE]>>
  /\ time_base \in PtsTimeBases
  /\ video = "live" /\ callerPtr = "set" /\ format_ctx = "set"
  /\ codec = "set" /\ codecpar = "set" /\ sws_ctx = "live" /\ codec_ctx = "open"
  /\ stream_idx = 1 /\ frames = NULL /\ frame_mutex = "free"
  /\ ipc = "ret" /\ initRet = 0 /\ initFound = [idx |-> 1, codec |-> TRUE]
  /\ created = {"video", "frame_mutex", "sws_ctx", "codec_ctx"}
  /\ \E p \in 0..MaxPts : frame = [pic |-> 1, pts |-> p] /\ decoded = <<p>>
  /\ scaled_frame = [buf |-> ScaledBuf, pts |-> AV_NOPTS_VALUE]
  /\ pixels = [b \in Bufs |-> 1] /\ bufRefs = [b \in Bufs |-> 2]
  /\ new_frame = 1
  /\ nodeSt = [n \in NodeIds |-> IF n = 1 THEN "live" ELSE "unalloc"]
  /\ node = [n \in NodeIds |->
              IF n = 1 THEN [NoNode EXCEPT !.frame = FrameClone(scaled_frame),
                                           !.pic = 1]
                       ELSE NoNode]
  /\ pret = 0 /\ nRead = 1 /\ nDecoded = 1
  /\ read_ret = 0 /\ send_ret = 0 /\ recv_ret = "frame"
  /\ enq = <<>> /\ popped = <<>> /\ removed = <<>> /\ released = <<>>
  /\ ub = "none" /\ stop_requested = FALSE
  /\ top_frame = NoFrame /\ top_node = NULL /\ next_frames = NULL
  /\ popRet = NoFrame /\ fcur = NULL
  /\ ppc = "setpts" /\ cpc = "idle" /\ fpc = "off"
NextPts == P_SetPts
SpecPts == InitPts /\ [][NextPts]_vars

\* --------------------------------------------------------------- claims

PosIn(s, x) == CHOOSE i \in 1..Len(s) : s[i] = x
ProducerRunning == ppc \notin {"off", "start", "returned"}

\* C1: whatever the timestamps and however enqueues and pops interleave,
\* pop always unlinks the node that was linked earliest among those still
\* queued (the unlinked nodes are a prefix of the linked ones), and the
\* frames handed out by non-NULL pops follow the order of linking.
C1_FifoOrder ==
  /\ Len(removed) <= Len(enq)
  /\ \A i \in 1..Len(removed) : removed[i] = enq[i]
  /\ \A i \in 1..Len(popped) : \E k \in 1..Len(enq) : enq[k] = popped[i].node
  /\ \A i, j \in 1..Len(popped) :
       i < j => PosIn(enq, popped[i].node) < PosIn(enq, popped[j].node)

\* Three frames with non-decreasing timestamps were linked, two came out of
\* pops and the third is still queued.
C1_Witness ==
  /\ Len(enq) = 3 /\ Len(popped) = 2 /\ Len(Chain) = 1
  /\ node[enq[1]].pts <= node[enq[2]].pts /\ node[enq[2]].pts <= node[enq[3]].pts

\* C2: between pops, every linked frame has either been handed to the
\* consumer or is still queued, and none was handed out twice.
C2_ExactlyOnce ==
  cpc = "idle" =>
    /\ Len(enq) = Len(popped) + Len(Chain)
    /\ \A i, j \in 1..Len(popped) : popped[i].node = popped[j].node => i = j

\* C3: a pop that finds the queue empty goes on without waiting (its next
\* step is always enabled), unlocks, and returns NULL; none of its steps
\* touches the queue, which is empty for as long as the pop holds the mutex.
C3_PopEmptyReturnsNull ==
  [][ /\ (ub = "none" /\ (cpc \in {"unlock_empty", "return_empty"}
                          \/ (cpc = "check" /\ frames = NULL)))
           => ENABLED ConsNext
      /\ (cpc = "check" /\ frames = NULL /\ cpc' # cpc)
           => (cpc' = "unlock_empty" /\ frame_mutex' = "cons"
               /\ UNCHANGED <<frames, node, nodeSt>>)
      /\ (cpc = "unlock_empty" /\ cpc' # cpc)
           => (cpc' = "return_empty" /\ frames = NULL /\ frame_mutex' = "free"
               /\ UNCHANGED <<frames, node, nodeSt>>)
      /\ (cpc = "return_empty" /\ cpc' # cpc)
           => (cpc' = "idle" /\ popRet' = NoFrame /\ frame_mutex # "cons"
               /\ UNCHANGED <<frames, node, nodeSt, frame_mutex>>)
    ]_vars

\* The pop has found the queue empty and released the mutex, and is about
\* to return.
C3_Witness == cpc = "return_empty" /\ frames = NULL /\ frame_mutex = "free"

\* C4: a frame handed out by pop shares its pixel buffer neither with the
\* producer's scaled frame nor with a frame still queued.
C4_PoppedFrameIndependent ==
  \A i \in 1..Len(popped) :
    /\ scaled_frame # NoFrame => popped[i].frame.buf # scaled_frame.buf
    /\ frame_mutex # "cons" =>
         \A k \in 1..Len(Chain) : node[Chain[k]].frame.buf # popped[i].frame.buf

\* C5: while a node is queued, the buffer its frame points at holds the
\* picture it held when the node was made.
C5_QueuedPixelsUnchanged ==
  frame_mutex # "cons" =>
    \A k \in 1..Len(Chain) :
      node[Chain[k]].frame # NoFrame =>
        pixels[node[Chain[k]].frame.buf] = node[Chain[k]].pic

\* C6: with a stop requested, the decode loop at the top of an iteration
\* leaves the loop: it neither reads nor submits another unit.
C6_StopHaltsLoop ==
  [][(stop_requested /\ ppc = "read") => (ppc' # "send" /\ nRead' = nRead)]_vars

\* C7: visage_free_video releases nothing (decoder, normalizer, node, mutex,
\* context) while the decode loop is running on the context.
C7_TeardownAfterLoop ==
  ProducerRunning =>
    /\ released = <<>>
    /\ \A n \in NodeIds : nodeSt[n] = "freed" => \E i \in 1..Len(removed) : removed[i] = n

\* C8: the frame a non-NULL pop hands out carries the millisecond timestamp
\* stored in the node it came from.
C8_PopDeliversPts ==
  \A i \in 1..Len(popped) : popped[i].frame.pts = node[popped[i].node].pts

\* C9: on a container without a video stream visage_init_video returns -1;
\* and after any failed visage_init_video, visage_free_video runs without
\* undefined behaviour and releases each handle that was created exactly
\* once and no other.
C9_FailedInitFreeable ==
  /\ ub = "none"
  /\ (ipc = "ret" /\ \A i \in 1..Len(streams) : streams[i].kind # "video")
       => initRet = -1
  /\ (fpc = "done" /\ ipc = "ret" /\ initRet = -1) =>
       /\ Range(released) = created
       /\ Len(released) = Cardinality(created)
       /\ callerPtr = "null" /\ video = "freed"
       /\ sws_ctx \in {"null", "freed"} /\ codec_ctx = "null"
       /\ frame_mutex = "destroyed"

\* visage_init_video failed on a container holding only an audio stream and
\* the context has been freed.
C9_Witness ==
  /\ fpc = "done" /\ ipc = "ret" /\ initRet = -1
  /\ Len(streams) > 0 /\ \A i \in 1..Len(streams) : streams[i].kind = "audio"

\* C10: a node allocation that fails is not written through (and the loop
\* ends with -1).
C10_AllocFailureReported ==
  /\ ub # "null_deref_new_frame"
  /\ (ppc = "returned" /\ new_frame = NULL /\ nDecoded > Len(enq)) => pret = -1

\* C11: visage_process_video returns 0 only when the loop ran to the end of
\* the source without an error, and -1 whenever it ended because of an
\* error: a return after a failed avcodec_send_packet is -1, and a return of
\* 0 follows an end of the source with no failed send before it.
C11_ErrorReturnsMinusOne ==
  ppc = "returned" =>
    /\ (send_ret < 0 => pret = -1)
    /\ (pret = 0 => (read_ret < 0 /\ send_ret >= 0))

\* C13: the pts stored in a node is the decoder timestamp times the stream
\* time base times 1000, truncated to an integer.
C13_PtsIsTruncatedProduct ==
  (ppc = "lock" /\ new_frame # NULL) =>
    node[new_frame].pts = ExactMs(frame.pts, time_base)

\* C12: every read or write of the frames field and of a linked node's next
\* pointer happens while the thread making it holds frame_mutex: the
\* producer's append, the steps of pop between its lock and its unlock, and
\* the steps of visage_free_video that read frames and walk the chain while
\* the decode loop is running.  frame_mutex names its holder; no step of
\* visage_free_video ever makes the calling thread ("owner") the holder.
C12_QueueAccessUnderLock ==
  [][/\ (ppc = "append" /\ ppc' # ppc) => frame_mutex = "prod"
     /\ (cpc \in {"check", "clone", "free", "update"} /\ cpc' # cpc)
          => frame_mutex = "cons"
     /\ (ProducerRunning /\ fpc \in {"sws", "frames"}
           /\ <<fpc, fcur>>' # <<fpc, fcur>>)
          => frame_mutex = "owner"]_vars

\* C14: once as many frames have come out of successful pops as were ever
\* linked, the queue is empty: frames is NULL and visage_free_all_frames,
\* which frees the nodes it reaches from frames, has no node to free.
C14_DrainedQueueIsEmpty ==
  (cpc = "idle" /\ Len(popped) = Len(enq)) => (frames = NULL /\ Chain = <<>>)

\* Two frames were linked, both came out of pops, and the loop has returned.
C14_Witness ==
  /\ Len(enq) = 2 /\ Len(popped) = 2 /\ cpc = "idle" /\ ppc = "returned"
  /\ frames = NULL

\* C15: the producer holds frame_mutex only for the linking of a node (the
\* append and the unlock after it), and by the time it holds it the frame's
\* work is done: the node is allocated, it carries the clone of the scaled
\* picture received last and the pts computed from that picture's timestamp.
C15_LockOnlyAroundLink ==
  frame_mutex = "prod" =>
    /\ ppc \in {"append", "unlock"}
    /\ new_frame # NULL /\ nodeSt[new_frame] = "live"
    /\ recv_ret = "frame" /\ pixels[scaled_frame.buf] = frame.pic
    /\ node[new_frame].frame \in {NoFrame, FrameClone(scaled_frame)}
    /\ node[new_frame].frame # NoFrame => node[new_frame].pic = frame.pic
    /\ node[new_frame].pts = PtsMs(frame.pts, time_base)

\* The producer holds the mutex to link its second frame, cloned and stamped.
C15_Witness ==
  /\ frame_mutex = "prod" /\ ppc = "append" /\ nDecoded = 2
  /\ node[new_frame].frame # NoFrame /\ node[new_frame].pic = 2

\* C16: the loop moves on to the next unit only when the last receive gave
\* no frame, and by then every frame received so far has been linked; the
\* linked nodes are the received pictures in the order received, each with
\* the pts of its own timestamp and, when its clone succeeded, its own
\* picture.
C16_DrainBeforeNextSubmit ==
  /\ ppc \in {"read", "send"} => (recv_ret # "frame" /\ Len(enq) = nDecoded)
  /\ \A i \in 1..Len(enq) :
       /\ enq[i] = i
       /\ nodeSt[i] = "live" =>
            /\ node[i].pts = PtsMs(decoded[i], time_base)
            /\ node[i].frame # NoFrame => node[i].pic = i

\* One unit was read, it gave two frames, both are linked and the decoder
\* has then reported no more output.
C16_Witness ==
  /\ ppc = "read" /\ nRead = 1 /\ recv_ret = "again"
  /\ Len(enq) = 2 /\ nDecoded = 2

\* C17: once av_read_frame has reported the end of the source, the loop
\* makes no further read, submit or receive and links nothing more: whatever
\* the decoder still holds is never asked for, and the frames linked are
\* those received before.
C17_NoFlushAtEndOfSource ==
  [][read_ret < 0 =>
       /\ ppc \in {"cleanup", "returned"} /\ ppc' \in {"cleanup", "returned"}
       /\ Len(enq) = Len(decoded)
       /\ UNCHANGED <<nRead, nDecoded, read_ret, send_ret, recv_ret, decoded,
                      enq>>]_vars

\* The loop has returned at the end of a source of two units, of which the
\* decoder turned only one picture out.
C17_Witness ==
  /\ ppc = "returned" /\ read_ret < 0 /\ send_ret = 0 /\ recv_ret = "again"
  /\ nRead = 2 /\ Len(enq) = 1

\* C18 as stated: a failed submit and a failed receive each end the decode
\* loop.
C18_DecodeErrorsFatal ==
  [][(ppc' # ppc /\ (\/ ppc = "send" /\ send_ret' < 0
                     \/ ppc = "receive" /\ recv_ret' = "error"))
       => ppc' = "cleanup"]_vars

\* C18 as the code has it: a failed submit ends the decode loop and nothing
\* is read, submitted or received after it; a failed receive is taken like
\* "no more output": it ends the draining of the unit and the loop reads on.
C18_SendFatalReceiveSkips ==
  [][/\ (ppc' # ppc /\ ppc = "send" /\ send_ret' < 0) => ppc' = "cleanup"
     /\ send_ret < 0 =>
          /\ ppc \in {"cleanup", "returned"} /\ ppc' \in {"cleanup", "returned"}
          /\ UNCHANGED <<nRead, nDecoded, read_ret, send_ret, recv_ret>>
     /\ (ppc' # ppc /\ ppc = "receive" /\ recv_ret' = "error")
          => ppc' = "read"]_vars

\* The receive for the first unit failed and the loop is submitting the
\* second.
C18_Witness == ppc = "send" /\ recv_ret = "error" /\ nRead = 2

NonDecreasing(s) == \A i \in 1..(Len(s) - 1) : s[i] <= s[i + 1]

\* C19: as long as the timestamps the decoder has given are non-negative
\* and non-decreasing, the pts of the queued nodes, read from the head to
\* the tail, are non-decreasing, and so are the pts of the nodes that
\* successive non-NULL pops took their frames from.
C19_QueueInPresentationOrder ==
  (NonDecreasing(decoded) /\ \A i \in 1..Len(decoded) : decoded[i] >= 0) =>
    /\ NonDecreasing([i \in 1..Len(Chain) |-> node[Chain[i]].pts])
    /\ NonDecreasing([i \in 1..Len(popped) |-> node[popped[i].node].pts])

\* Three pictures with timestamps that do not decrease and are not all the
\* same: two have been popped, the last is queued.
C19_Witness ==
  /\ Len(decoded) = 3 /\ NonDecreasing(decoded) /\ decoded[1] < decoded[3]
  /\ Len(popped) = 2 /\ Len(Chain) = 1
  /\ node[popped[1].node].pts < node[Chain[1]].pts

\* C20: whenever frame_mutex is not held, every node reachable from frames
\* is allocated and is reached once; and no thread is ever about to free a
\* node that has been freed already, be it pop freeing the head or
\* visage_free_all_frames freeing the node of its walk.
C20_NodeLinkedOrFreed ==
  /\ frame_mutex = "free" =>
       /\ ChainLive
       /\ \A i, j \in 1..Len(Chain) : Chain[i] = Chain[j] => i = j
  /\ ~(cpc = "free" /\ frames # NULL /\ nodeSt[frames] = "freed")
  /\ ~(fpc = "frames" /\ fcur # NULL /\ nodeSt[fcur] = "freed")

\* C21: visage_pop_video returns NULL only if the queue was empty when it
\* took the lock.  A pop that found a node (it is past the emptiness test,
\* about to return top_frame) returns a frame, and between pops every node
\* taken off the queue has been answered by a returned frame, so a pop that
\* returned NULL removed nothing.
C21_NullPopOnlyWhenEmpty ==
  /\ cpc = "return" => top_frame # NoFrame
  /\ cpc = "idle" => Len(removed) = Len(popped)

\* C22: there is no backpressure between producer and consumer.  With a
\* finite source and a fair mutex the decode loop eventually returns,
\* whatever the consumer does (never popping, popping continuously), and
\* when it returns every decoded frame has been enqueued.
C22_LoopReturnsAllEnqueued ==
  <>(ppc = "returned" /\ Len(enq) = Len(decoded))

\* C23: visage_process_video checks that the context is initialized.  Once
\* it has been called on a context that is NULL, or allocated and never
\* initialized, or whose visage_init_video failed, it has returned -1,
\* nothing undefined has happened (no handle was dereferenced) and the
\* queue is as it was, empty.
Initialized == ipc = "ret" /\ initRet = 0
C23_UninitializedRejected ==
  ((ppc # "start" \/ ub # "none") /\ ~Initialized) =>
    /\ ppc = "returned" /\ pret = -1
    /\ ub = "none"
    /\ frames = NULL /\ enq = <<>>

\* Everything visage_free_video is said to leave behind, but for the source
\* handle: each node that was still queued is freed and gives back its
\* frame's reference to the pixel buffer (the references left are those of
\* the frames pops handed out), nothing was freed twice, the decoder and
\* the normalizer are released, the mutex is destroyed, each handle the
\* context created is released once, and the caller's pointer is NULL.
RefsHeldByCaller(b) == Cardinality({i \in 1..Len(popped) : popped[i].frame.buf = b})
TornDown ==
  /\ ub = "none"
  /\ \A n \in NodeIds : nodeSt[n] # "live"
  /\ \A b \in Bufs : bufRefs[b] = RefsHeldByCaller(b)
  /\ codec_ctx = "null" /\ sws_ctx = "freed"
  /\ frame_mutex = "destroyed"
  /\ Range(released) = created /\ Len(released) = Cardinality(created)
  /\ callerPtr = "null"
SecondFreeDoesNothing ==
  (fpc = "call" /\ video = "freed") =>
    /\ fpc' = "done"
    /\ UNCHANGED <<srcVars, ctxVars, heapVars, mainVars, prodVars, consVars,
                   fcur, stop_requested, histVars, ub>>

\* C24 as written: teardown releases everything the context owns.  After
\* visage_free_video on a context with any number of queued nodes every
\* remaining node and its frame has been freed exactly once, the decoder,
\* normalizer and source handles have been released, the mutex is
\* destroyed, the caller's pointer is NULL, and a second visage_free_video
\* on the same pointer does nothing.
C24_TeardownReleasesAll ==
  /\ [](video = "freed" => (TornDown /\ format_ctx # "set"))
  /\ [][SecondFreeDoesNothing]_vars

\* C24 amended: the same for all but the source handle, which
\* visage_free_video leaves bound and open: it stays the caller's to close.
C24_TeardownKeepsSource ==
  /\ [](video = "freed" => (TornDown /\ format_ctx = "set"))
  /\ [][SecondFreeDoesNothing]_vars

\* A context whose queue still held two nodes has been torn down, and
\* visage_free_video is being called again on the pointer it set to NULL.
C24_Witness ==
  /\ video = "freed" /\ fpc = "call"
  /\ Len(enq) - Len(removed) >= 2


====
